---------------------------- MODULE Spec2Model ----------------------------
(***************************************************************************)
(* Calendar reconciliation of NFL_calendar_sync.                           *)
(*                                                                         *)
(* GoogleCalendarService.sync_games_to_calendar lists the upcoming events  *)
(* of a calendar, indexes them by the 'Game ID:' line of their description *)
(* and then updates or inserts one event per input game.  The orchestrator *)
(* routes of main.py (sync_calendar, handle_calendar_callback) call it and *)
(* persist last_sync through UserManager.update_last_sync.                 *)
(*                                                                         *)
(* Texts are sequences of one-character strings, so that formatting and    *)
(* parsing are computed the way Python computes them.                      *)
(***************************************************************************)
EXTENDS Integers, Sequences, FiniteSets, TLC

VARIABLES
    now,        \* datetime.now(), in hours on one time line
    events,     \* provider state: calendar id -> sequence of stored events
    nextId,     \* provider state: number of event ids handed out so far
    calendarList, \* provider state: account -> entries of its calendar list
    users,      \* users collection: user id -> document
    run,        \* slot -> activation record of sync_games_to_calendar
    req,        \* slot -> activation record of the calling route
    history,    \* finished runs of sync_games_to_calendar, oldest first
    tag,        \* a transform-then-parse computation on one game
    game_store  \* games collection: the stored documents, in insertion order

vars == <<now, events, nextId, calendarList, users, run, req, history, tag,
          game_store>>

-----------------------------------------------------------------------------
(* Text helpers (Python str operations)                                    *)

NL == "\n"

\* str.startswith
StartsWith(s, p) ==
    /\ Len(s) >= Len(p)
    /\ SubSeq(s, 1, Len(p)) = p

\* index of the first c in s at or after position i, 0 when there is none
RECURSIVE FindFrom(_, _, _)
FindFrom(s, c, i) ==
    IF i > Len(s) THEN 0
    ELSE IF s[i] = c THEN i
    ELSE FindFrom(s, c, i + 1)

\* str.split(c): the pieces between the occurrences of c, empty ones kept
RECURSIVE Split(_, _)
Split(s, c) ==
    LET k == FindFrom(s, c, 1)
    IN  IF k = 0 THEN <<s>>
        ELSE <<SubSeq(s, 1, k - 1)>> \o Split(SubSeq(s, k + 1, Len(s)), c)

IsSpace(ch) == ch \in {" ", NL}

RECURSIVE LStrip(_)
LStrip(s) ==
    IF s # <<>> /\ IsSpace(Head(s)) THEN LStrip(Tail(s)) ELSE s

RECURSIVE RStrip(_)
RStrip(s) ==
    IF s # <<>> /\ IsSpace(s[Len(s)]) THEN RStrip(SubSeq(s, 1, Len(s) - 1)) ELSE s

\* str.strip
Strip(s) == LStrip(RStrip(s))

-----------------------------------------------------------------------------
(* Game -> event transform                                                 *)

\* timedelta(hours=3)
GameDurationHours == 3

TXT_WEEK == <<"W", "e", "e", "k", " ">>
TXT_NFL_GAME == <<" ", "N", "F", "L", " ", "G", "a", "m", "e", NL>>
TXT_AT == <<" ", "a", "t", " ">>
TXT_SEASON == <<NL, NL, "S", "e", "a", "s", "o", "n", ":", " ">>
TXT_GAME_ID == <<"G", "a", "m", "e", " ", "I", "D", ":">>
TXT_NFL == <<"N", "F", "L", ":", " ">>
TXT_VS == <<" ", "v", "s", " ">>

\* A game record: game_id, week, season are texts; game_date is
\* [parses, day] (whether strptime '%Y-%m-%d' accepts it, and the day it
\* denotes); game_time is [parses, hour] for '%H:%M'; teams is
\* [present, away, home] (whether the 'teams' key with both names exists).

\* datetime.combine(game_date, game_time)
CombineStart(game) == [day |-> game.game_date.day, hour |-> game.game_time.hour]

\* PlusHours that keeps the date when the hours pass midnight
MutPlusHoursNoCarry(dt, h) == [day |-> dt.day, hour |-> (dt.hour + h) % 24]

\* start_time + timedelta(hours=3)
PlusHours(dt, h) ==
    [day |-> dt.day + ((dt.hour + h) \div 24), hour |-> (dt.hour + h) % 24]

\* position of a date-time on the time line, in hours
AbsHours(dt) == dt.day * 24 + dt.hour

\* TransformRaises with a test of its own on the kick-off: a game that has
\* started is rejected
MutTransformRaisesStarted(game) ==
    \/ ~game.game_date.parses
    \/ ~game.game_time.parses
    \/ ~game.teams.present
    \/ AbsHours(CombineStart(game)) < now

\* the keys _create_event_from_game reads with game[...]
RequiredKeys == {"game_date", "game_time", "teams", "week", "season", "game_id"}

\* strptime or a key lookup raises
TransformRaises(game) ==
    \/ RequiredKeys \ DOMAIN game # {}
    \/ ~game.game_date.parses
    \/ ~game.game_time.parses
    \/ ~game.teams.present

\* {'dateTime': dt.isoformat(), 'timeZone': 'America/New_York'}
Zoned(dt) == [day |-> dt.day, hour |-> dt.hour, timeZone |-> "America/New_York"]

Description(game) ==
    TXT_WEEK \o game.week \o TXT_NFL_GAME
    \o game.teams.away \o TXT_AT \o game.teams.home
    \o TXT_SEASON \o game.season
    \o <<NL>> \o TXT_GAME_ID \o <<" ">> \o game.game_id

\* _create_event_from_game stamping the event with the time of the call
MutCreateEventStamped(game) ==
    [summary     |-> TXT_NFL \o game.teams.away \o TXT_VS \o game.teams.home,
     description |-> Description(game),
     start       |-> Zoned(CombineStart(game)),
     end         |-> Zoned(PlusHours(CombineStart(game), GameDurationHours)),
     created     |-> now]

\* the event body built for a game the transform accepts
_create_event_from_game(game) ==
    [summary     |-> TXT_NFL \o game.teams.away \o TXT_VS \o game.teams.home,
     description |-> Description(game),
     start       |-> Zoned(CombineStart(game)),
     end         |-> Zoned(PlusHours(CombineStart(game), GameDurationHours))]

-----------------------------------------------------------------------------
(* Index-building scan                                                     *)

\* the value after the label on a 'Game ID:' line
TagValue(line) == Strip(Split(line, ":")[2])

RECURSIVE FirstTagLine(_)
FirstTagLine(lines) ==
    IF lines = <<>> THEN <<>>
    ELSE IF StartsWith(Head(lines), TXT_GAME_ID) THEN <<Head(lines)>>
    ELSE FirstTagLine(Tail(lines))

\* the game id the scan reads from a description: <<id>>, or <<>> when no
\* line starts with 'Game ID:'
ParseGameId(description) ==
    LET hit == FirstTagLine(Split(description, NL))
    IN  IF hit = <<>> THEN <<>> ELSE <<TagValue(hit[1])>>

\* the game id the scan reads from a listed event: an event without the
\* 'description' key is passed over
TagOf(event) ==
    IF "description" \in DOMAIN event.body
    THEN ParseGameId(event.body.description)
    ELSE <<>>

-----------------------------------------------------------------------------
(* Bounds and the data the runs are given                                  *)

MaxGames == 2       \* longest game list a direct caller passes
MaxConcGames == 1   \* longest game list of a call that overlaps another
MaxRuns == 2        \* sync_games_to_calendar runs in one behaviour
MaxNow == 24        \* the clock stops advancing here
ClockStep == 24     \* hours the clock advances in one step

Slots == {1, 2}
CalIds ==
    {"calA", "calB", "calC", "calD", "calE", "calF", "calG", "calH", "calI"}
UserIds == {"u1", "u2", "u3", "u4", "u5", "u6"}
Accounts == UserIds \cup {"u9"}

T_1 == <<"1">>
T_2 == <<"2">>
T_3 == <<"3">>
T_2024 == <<"2", "0", "2", "4">>
T_JETS == <<"J", "e", "t", "s">>
T_BILLS == <<"B", "i", "l", "l", "s">>
T_DINNER == <<"D", "i", "n", "n", "e", "r">>
T_NOTE == <<"B", "r", "i", "n", "g", " ", "I", "D", ":", " ", "1">>

Date(d) == [parses |-> TRUE, day |-> d]
Time(h) == [parses |-> TRUE, hour |-> h]
BadDate == [parses |-> FALSE, day |-> 0]
Teams(a, h) == [present |-> TRUE, away |-> a, home |-> h]

GameA ==
    [game_id |-> T_1, week |-> T_1, season |-> T_2024, game_date |-> Date(1),
     game_time |-> Time(13), teams |-> Teams(T_JETS, T_BILLS),
     participating_teams |-> {"1", "2"}]

\* the same game after a re-fetch moved its kick-off to the evening before:
\* it lasts from hour 22 to hour 25, across the clock point 24
GameA2 == [GameA EXCEPT !.game_date = Date(0), !.game_time = Time(22)]

GameB ==
    [game_id |-> T_2, week |-> T_2, season |-> T_2024, game_date |-> Date(0),
     game_time |-> Time(13), teams |-> Teams(T_BILLS, T_JETS),
     participating_teams |-> {"1", "3"}]

\* a record whose game_date strptime rejects
GameMalformed ==
    [game_id |-> T_3, week |-> T_1, season |-> T_2024, game_date |-> BadDate,
     game_time |-> Time(13), teams |-> Teams(T_JETS, T_BILLS),
     participating_teams |-> {"2"}]

DirectPool == {GameA, GameA2, GameB, GameMalformed}

BadTime == [parses |-> FALSE, hour |-> 0]
NoTeams == [present |-> FALSE, away |-> <<>>, home |-> <<>>]

\* records the transform rejects: game_time is not '%H:%M'; a team name is
\* absent; the 'week' key is absent
GameBadTime == [GameA EXCEPT !.game_time = BadTime]
GameNoTeams == [GameA EXCEPT !.teams = NoTeams]
GameNoWeek == [k \in DOMAIN GameA \ {"week"} |-> GameA[k]]

\* records store_game rejects: no game_date key; no game_id key
GameNoDate == [k \in DOMAIN GameB \ {"game_date"} |-> GameB[k]]
GameNoId == [k \in DOMAIN GameB \ {"game_id"} |-> GameB[k]]

\* what the data sync hands to store_game: a game, the same game fetched
\* again with another kick-off or without its week, a game not yet stored,
\* and the records store_game rejects
StorePool == {GameA, GameA2, GameNoWeek, GameB, GameMalformed, GameNoDate, GameNoId}

\* a well-formed game and every kind of record the transform rejects
MalformedPool == {GameB, GameMalformed, GameBadTime, GameNoTeams, GameNoWeek}

MaxIdLen == 3       \* longest game_id of the transform-then-parse computation
MaxDay == 2         \* latest game_date of the transform computation
PageSize == 3       \* events on one page of events().list (250 at the
                    \* provider when the call names no maxResults)
CalendarPageSize == 2   \* entries on one page of calendarList().list (100
                        \* at the provider)
MaxCalendarEntries == 4 \* longest calendar list of an account

\* game ids made of a digit, the colon and the blank
TagAlphabet == {"7", ":", " "}
TagIds == UNION {[1..n -> TagAlphabet] : n \in 1..MaxIdLen}
TagGames == {[g EXCEPT !.game_id = id] : g \in {GameA, GameMalformed}, id \in TagIds}

\* a game on every day up to MaxDay at every hour of the day
TimeGames ==
    {[GameA EXCEPT !.game_date = Date(d), !.game_time = Time(h)] :
        d \in 0..MaxDay, h \in 0..23}

\* every list of at most MaxGames records of the pool
GameLists == UNION {[1..n -> DirectPool] : n \in 0..MaxGames}

MalformedLists == UNION {[1..n -> MalformedPool] : n \in 0..MaxGames}

\* events the owner of a calendar made by hand, both on the evening of day
\* 2: one without a description, one whose description has no line that
\* starts with 'Game ID:'
ManualNoDescription ==
    [id |-> 101,
     body |-> [summary |-> T_DINNER,
               start |-> [day |-> 2, hour |-> 19], end |-> [day |-> 2, hour |-> 21]]]

ManualUntagged ==
    [id |-> 102,
     body |-> [summary |-> T_DINNER, description |-> T_NOTE,
               start |-> [day |-> 2, hour |-> 19], end |-> [day |-> 2, hour |-> 21]]]

\* calB is a calendar its owner also uses by hand; the others start empty
InitEvents ==
    [c \in CalIds |->
        IF c = "calB" THEN <<ManualNoDescription, ManualUntagged>> ELSE <<>>]

\* the $set of an update_one: the document with the fields of the update
\* laid over its own
SetFields(doc, fields) ==
    [k \in DOMAIN doc \cup DOMAIN fields |->
        IF k \in DOMAIN fields THEN fields[k] ELSE doc[k]]

\* game_data as store_game writes it: last_updated and calendar_synced are
\* set on the caller's dictionary before the upsert
Stamped(game_data, t) ==
    SetFields(game_data, [last_updated |-> t, calendar_synced |-> FALSE])

\* games collection as the data sync left it: one document per game
StoredGames == <<Stamped(GameA, 0), Stamped(GameB, 0)>>

\* the fields store_game requires
required_fields == {"game_id", "season", "participating_teams", "game_date"}

\* store_game raises ValueError before it touches the collection
StoreRaises(game_data) == required_fields \ DOMAIN game_data # {}

\* Upsert inserting a document at every call
MutUpsertInsertOnly(store, fields) == Append(store, fields)

\* update_one({"game_id": ...}, {"$set": fields}, upsert=True): the first
\* document with the game_id takes the fields; when there is none, a
\* document made of the fields is inserted
Upsert(store, fields) ==
    LET hits == {k \in 1..Len(store) : store[k].game_id = fields.game_id}
    IN  IF hits = {} THEN Append(store, fields)
        ELSE LET first == CHOOSE k \in hits : \A m \in hits : k <= m
             IN  [store EXCEPT ![first] = SetFields(@, fields)]

\* NFLDatabase.find_games_by_team_id with a list of team ids
find_games_by_team_id(team_id) ==
    SelectSeq(game_store, LAMBDA g : g.participating_teams \cap team_id # {})

\* credentials_dict values: accepted by the provider; well-formed but
\* expired or revoked, so that the provider rejects every call; lacking one
\* of the keys _build_calendar_service requires
Creds == {"valid", "expired", "malformed"}

-----------------------------------------------------------------------------
(* Calendar provider (events().list / insert / update)                     *)

\* the first n elements of a sequence
FirstN(s, n) == SubSeq(s, 1, IF Len(s) < n THEN Len(s) ELSE n)

\* events().list(calendarId, timeMin).execute(): the first page of the
\* stored events, in order, that have not ended by timeMin.  The code asks
\* for no further page.
ListUpcoming(cal, timeMin) ==
    FirstN(SelectSeq(events[cal], LAMBDA e : AbsHours(e.body.end) > timeMin),
           PageSize)

\* the provider serves a call made with this credential
ProviderAccepts(cred) == cred = "valid"

\* outcomes a provider call can have: it may always fail (network, quota,
\* timeout); it can succeed only with an accepted credential
CallOutcomes(cred) == IF ProviderAccepts(cred) THEN {TRUE, FALSE} ELSE {FALSE}

\* events().insert: the calendar with a new event appended
Inserted(cal, id, body) == Append(events[cal], [id |-> id, body |-> body])

\* Updated removing the event instead of replacing its body
MutUpdatedDeletes(cal, id, body) == SelectSeq(events[cal], LAMBDA e : e.id # id)

\* events().update: the calendar with the body of event id replaced
Updated(cal, id, body) ==
    [k \in 1..Len(events[cal]) |->
        IF events[cal][k].id = id THEN [id |-> id, body |-> body]
        ELSE events[cal][k]]

-----------------------------------------------------------------------------
(* sync_games_to_calendar                                                  *)

EmptyDict == [k \in {} |-> 0]

\* d[k] = v on a Python dict
DictSet(d, k, v) == [x \in DOMAIN d \cup {k} |-> IF x = k THEN v ELSE d[x]]

\* BuildIndex without the tests on the description: an event that has no
\* 'Game ID:' line is entered under the empty game id
RECURSIVE MutBuildIndexUntagged(_, _)
MutBuildIndexUntagged(items, acc) ==
    IF items = <<>> THEN acc
    ELSE LET e == Head(items)
             t == TagOf(e)
         IN  MutBuildIndexUntagged(Tail(items),
                                   DictSet(acc, IF t = <<>> THEN <<>> ELSE t[1], e.id))

\* the loop that fills existing_events from the listed items
RECURSIVE BuildIndex(_, _)
BuildIndex(items, acc) ==
    IF items = <<>> THEN acc
    ELSE LET e == Head(items)
             t == TagOf(e)
         IN  BuildIndex(Tail(items),
                        IF t = <<>> THEN acc ELSE DictSet(acc, t[1], e.id))

IdleRun ==
    [pc |-> "idle", credentials_dict |-> "valid", calendar_id |-> "calA",
     games |-> <<>>, existing_events |-> EmptyDict, i |-> 0,
     synced_count |-> 0, calls |-> <<>>, listed_at |-> 0]

\* entry of sync_games_to_calendar with its three arguments
EnterRun(credentials_dict, calendar_id, games) ==
    [IdleRun EXCEPT !.pc = "build", !.credentials_dict = credentials_dict,
                    !.calendar_id = calendar_id, !.games = games]

\* a finished run, as recorded in history
Finished(r, raised) ==
    [calendar_id |-> r.calendar_id, games |-> r.games, calls |-> r.calls,
     credentials_dict |-> r.credentials_dict, raised |-> raised,
     count |-> r.synced_count]

\* _build_calendar_service raises on a dictionary lacking a required key
BuildRaises(credentials_dict) == credentials_dict = "malformed"

\* service = self._build_calendar_service(credentials_dict); a raise leaves
\* through the outer except, which re-raises
Build(p) ==
    /\ run[p].pc = "build"
    /\ IF BuildRaises(run[p].credentials_dict)
       THEN /\ run' = [run EXCEPT ![p].pc = "raised"]
            /\ history' = Append(history, Finished(run[p], TRUE))
       ELSE /\ run' = [run EXCEPT ![p].pc = "list"]
            /\ UNCHANGED history
    /\ UNCHANGED <<now, events, nextId, calendarList, users, req, tag, game_store>>

\* what the run does when the list call fails: the inner except logs a
\* warning and the run goes on with an empty index
AfterListFailure(r) ==
    [r EXCEPT !.pc = "loop", !.i = 1,
              !.calls = Append(@, [op |-> "list", ok |-> FALSE, item |-> 0, id |-> 0])]

\* what the run does when the list call returns: the items are indexed
AfterListSuccess(r) ==
    [r EXCEPT !.pc = "loop", !.i = 1, !.listed_at = now,
              !.existing_events =
                  BuildIndex(ListUpcoming(r.calendar_id, now), EmptyDict),
              !.calls = Append(@, [op |-> "list", ok |-> TRUE, item |-> 0, id |-> 0])]

\* the list call and the indexing of its items
List(p) ==
    /\ run[p].pc = "list"
    /\ \E ok \in CallOutcomes(run[p].credentials_dict) :
          run' = [run EXCEPT ![p] =
                    IF ok THEN AfterListSuccess(run[p])
                    ELSE AfterListFailure(run[p])]
    /\ UNCHANGED <<now, events, nextId, calendarList, users, req, history, tag, game_store>>

\* Target without the lookup in the index
MutTargetInsertOnly(r, game) == [op |-> "insert", id |-> 0]

\* Target deciding against the calendar as it is now
MutTargetLive(r, game) ==
    LET live == BuildIndex(ListUpcoming(r.calendar_id, now), EmptyDict)
    IN  IF game.game_id \in DOMAIN live
        THEN [op |-> "update", id |-> live[game.game_id]]
        ELSE [op |-> "insert", id |-> 0]

\* the call chosen for a game: an update of the event the index holds for
\* its game_id when the index has that key, an insert otherwise
Target(r, game) ==
    IF game.game_id \in DOMAIN r.existing_events
    THEN [op |-> "update", id |-> r.existing_events[game.game_id]]
    ELSE [op |-> "insert", id |-> 0]

\* TargetCalendar read from an attribute of the service object that the
\* latest caller has set
MutTargetCalendarShared(r) ==
    IF run[2].pc # "idle" THEN run[2].calendar_id ELSE r.calendar_id

\* the calendar the insert and update calls of a run name: the calendar_id
\* argument of the call, a local of the coroutine
TargetCalendar(r) == r.calendar_id

\* AfterItemFailure listing the calendar again before the next game
MutAfterItemFailureRelist(r) ==
    [r EXCEPT !.i = @ + 1,
              !.existing_events =
                  BuildIndex(ListUpcoming(r.calendar_id, now), EmptyDict),
              !.calls = Append(@, [op |-> "list", ok |-> TRUE, item |-> 0, id |-> 0])]

\* AfterItemFailure ending the loop as a break does
MutAfterItemFailureBreak(r) == [r EXCEPT !.i = Len(r.games) + 1]

\* AfterItemFailure leaving the loop
MutAfterItemFailureAbort(r) == [r EXCEPT !.pc = "raised"]

\* AfterItemFailure counting the game
MutAfterItemFailureCounted(r) == [r EXCEPT !.i = @ + 1, !.synced_count = @ + 1]

\* where the loop goes after a game whose call raised: the except clause
\* logs and continues with the next game
AfterItemFailure(r) == [r EXCEPT !.i = @ + 1]

\* value of synced_count after a game whose call returned
CountAfterSuccess(n) == n + 1

\* one iteration of "for game in games"
Item(p) ==
    LET r    == run[p]
        game == r.games[r.i]
        cal  == TargetCalendar(r)
    IN
    /\ r.pc = "loop"
    /\ r.i <= Len(r.games)
    /\ IF TransformRaises(game)
       THEN /\ run' = [run EXCEPT ![p] = AfterItemFailure(r)]
            /\ UNCHANGED <<events, nextId>>
       ELSE LET body == _create_event_from_game(game)
                op   == Target(r, game).op
                id   == IF op = "update" THEN Target(r, game).id ELSE nextId + 1
            IN  \E ok \in CallOutcomes(r.credentials_dict) :
                  LET logged == [r EXCEPT !.calls =
                                    Append(@, [op |-> op, ok |-> ok,
                                               item |-> r.i, id |-> id])]
                  IN
                  IF ok
                  THEN /\ events' = [events EXCEPT ![cal] =
                                        IF op = "update" THEN Updated(cal, id, body)
                                        ELSE Inserted(cal, id, body)]
                       /\ nextId' = IF op = "update" THEN nextId ELSE nextId + 1
                       /\ run' = [run EXCEPT ![p] =
                                    [logged EXCEPT
                                       !.i = @ + 1,
                                       !.synced_count = CountAfterSuccess(@)]]
                  ELSE /\ run' = [run EXCEPT ![p] = AfterItemFailure(logged)]
                       /\ UNCHANGED <<events, nextId>>
    /\ UNCHANGED <<now, calendarList, users, req, history, tag, game_store>>

\* return synced_count
Return(p) ==
    /\ run[p].pc = "loop"
    /\ run[p].i > Len(run[p].games)
    /\ run' = [run EXCEPT ![p].pc = "returned"]
    /\ history' = Append(history, Finished(run[p], FALSE))
    /\ UNCHANGED <<now, events, nextId, calendarList, users, req, tag, game_store>>

-----------------------------------------------------------------------------
(* users collection (UserManager)                                          *)

NoSync == [set |-> FALSE, timestamp |-> 0, games_synced |-> 0]

\* calendar_status of a document written by create_user
NotConnected ==
    [is_connected |-> FALSE, calendar_id |-> "none", credentials |-> "none",
     last_sync |-> NoSync]

\* a document as create_user and update_favorite_teams leave it: no
\* top-level google_credentials or calendar_id key
Registered(email, teams) ==
    [email |-> email, favorite_teams |-> teams, has_google_credentials |-> FALSE,
     google_credentials |-> "none", has_calendar_id |-> FALSE,
     calendar_id |-> "none", calendar_status |-> NotConnected]

\* a document that also carries the top-level google_credentials key
\* (UserDatabase.create_or_update_user, UserDatabase.update_google_credentials)
\* and a top-level calendar_id
WithCredentials(doc, credentials, calendar_id) ==
    [doc EXCEPT !.has_google_credentials = TRUE,
                !.google_credentials = credentials,
                !.has_calendar_id = TRUE,
                !.calendar_id = calendar_id]

\* u1 and u3 registered through the API, u1 with a favourite team; u2, u4,
\* u5 and u6 are documents of the same collection with the top-level keys:
\* the value stored for u4 lacks a key _build_calendar_service requires, u5
\* has selected no team, and the team of u6 has no stored game
InitUsers ==
    [u \in UserIds |->
        CASE u = "u1" -> Registered("u1@x", {"2"})
          [] u = "u2" -> WithCredentials(Registered("u2@x", {"1"}), "valid", "calB")
          [] u = "u3" -> Registered("u3@x", {})
          [] u = "u4" -> WithCredentials(Registered("u4@x", {"2"}), "malformed", "calB")
          [] u = "u5" -> WithCredentials(Registered("u5@x", {}), "valid", "calH")
          [] OTHER    -> WithCredentials(Registered("u6@x", {"4"}), "valid", "calI")]

\* calendar_name of the call in handle_calendar_callback
CalendarName == "NFL Game Schedule"

\* an entry of a calendar list
Entry(id, summary) == [id |-> id, summary |-> summary]

\* the account of u2 already has its 'NFL Game Schedule' calendar; the
\* account of u3 lists two calendars of its owner, which fill a page
InitCalendarList ==
    [a \in Accounts |->
        CASE a = "u2" -> <<Entry("calB", CalendarName)>>
          [] a = "u3" -> <<Entry("work", "Work"), Entry("home", "Family")>>
          [] OTHER    -> <<>>]

\* UserManager.get_user_teams
get_user_teams(user_id) == users[user_id].favorite_teams

\* the document after UserManager.update_calendar_status
update_calendar_status(doc, calendar_id, credentials) ==
    [doc EXCEPT !.calendar_status =
        [is_connected |-> TRUE, calendar_id |-> calendar_id,
         credentials |-> credentials, last_sync |-> NoSync]]

\* the document after UserManager.update_last_sync
update_last_sync(doc, sync_count) ==
    [doc EXCEPT !.calendar_status.last_sync =
        [set |-> TRUE, timestamp |-> now, games_synced |-> sync_count]]

-----------------------------------------------------------------------------
(* Routes of main.py                                                       *)

\* age in seconds after which handle_calendar_callback rejects a state
StateExpirySeconds == 3600

\* state parameters a callback can carry: for a stored user or for "u9",
\* who has no document; undecodable; lacking a key; of some age
StateParams ==
    {[decodes |-> TRUE, complete |-> TRUE, user_id |-> u, age |-> a] :
        u \in UserIds \cup {"u9"},
        a \in {0, StateExpirySeconds, StateExpirySeconds + 1}}
    \cup {[decodes |-> FALSE, complete |-> FALSE, user_id |-> "u1", age |-> 0],
          [decodes |-> TRUE, complete |-> FALSE, user_id |-> "u1", age |-> 0]}

\* StateRejected without the test on the age of the state
MutStateRejectedNoExpiry(state) ==
    \/ ~state.decodes
    \/ ~state.complete

\* the try block that decodes state raises
StateRejected(state) ==
    \/ ~state.decodes
    \/ ~state.complete
    \/ state.age > StateExpirySeconds

\* a request that carries no document
NoArg == <<>>

\* an activation: the handler, the user it acts for, its answer, the count
\* it reports, the document it was given, and the collaborator calls it has
\* made
IdleReq ==
    [route |-> "none", user |-> "none", response |-> "none", count |-> 0,
     arg |-> NoArg, did |-> <<>>]

\* runs started so far
RunsStarted ==
    Len(history) + Cardinality({p \in Slots : run[p].pc \in {"build", "list", "loop"}})

\* the request slot a new request gets: the lowest free one
FreeSlot(p) ==
    /\ req[p].route = "none"
    /\ \A q \in Slots : q < p => req[q].route # "none"

\* no request is being served
NoneActive == \A q \in Slots : req[q].route = "none"

\* the handler of slot p answers after the collaborator calls of did
AnswerAfter(p, route, user, response, count, did) ==
    req' = [req EXCEPT ![p] = [route |-> route, user |-> user,
                               response |-> response, count |-> count,
                               arg |-> NoArg, did |-> did]]

Answer(p, route, user, response, count) ==
    AnswerAfter(p, route, user, response, count, <<>>)

Await(p, route, user) == Answer(p, route, user, "pending", 0)

\* a caller other than the routes (test_google_cal.main) calls
\* sync_games_to_calendar with arguments of its own
DirectCallWith(p, lists) ==
    /\ FreeSlot(p)
    /\ RunsStarted < MaxRuns
    /\ \E cred \in Creds, cal \in {"calA", "calB"}, games \in lists :
          run' = [run EXCEPT ![p] = EnterRun(cred, cal, games)]
    /\ Await(p, "direct", "none")
    /\ UNCHANGED <<now, events, nextId, calendarList, users, history, tag, game_store>>

DirectCall(p) == DirectCallWith(p, GameLists)

\* a call that may overlap another one
OverlappingCall(p) ==
    DirectCallWith(p, {l \in GameLists : Len(l) <= MaxConcGames})

\* SyncRejection without the test on the teams
MutSyncRejectionNoTeamsTest(user_data, teams_to_sync, games) ==
    IF ~user_data.has_google_credentials THEN "400 not connected"
    ELSE IF games = <<>> THEN "200 no games"
    ELSE "none"

\* the answer sync_calendar gives before it calls the reconciler, "none"
\* when it goes on to the call: the tests on google_credentials, on the
\* teams and on the games, in that order
SyncRejection(user_data, teams_to_sync, games) ==
    IF ~user_data.has_google_credentials THEN "400 not connected"
    ELSE IF teams_to_sync = {} THEN "400 no teams"
    ELSE IF games = <<>> THEN "200 no games"
    ELSE "none"

\* sync_calendar up to its call of sync_games_to_calendar
SyncCalendarBegin(p, u) ==
    LET user_data     == users[u]
        teams_to_sync == get_user_teams(u)
        games         == find_games_by_team_id(teams_to_sync)
        rejection     == SyncRejection(user_data, teams_to_sync, games)
    IN
    /\ FreeSlot(p)
    /\ IF rejection # "none"
       THEN /\ Answer(p, "sync_calendar", u, rejection, 0)
            /\ UNCHANGED run
       ELSE IF ~user_data.has_calendar_id
       THEN /\ Answer(p, "sync_calendar", u, "500", 0)
            /\ UNCHANGED run
       ELSE /\ RunsStarted < MaxRuns
            /\ run' = [run EXCEPT ![p] =
                         EnterRun(user_data.google_credentials,
                                  user_data.calendar_id, games)]
            /\ Await(p, "sync_calendar", u)
    /\ UNCHANGED <<now, events, nextId, calendarList, users, history, tag, game_store>>

\* handle_calendar_callback, given state, answers after the collaborator
\* calls of did
CallbackAnswer(p, state, response, did) ==
    req' = [req EXCEPT ![p] = [route |-> "callback", user |-> state.user_id,
                               response |-> response, count |-> 0,
                               arg |-> state, did |-> did]]

\* id the provider gives the calendar it creates on an account: one the
\* account does not have yet
NewCalendarId(account) ==
    LET first == CASE account = "u1" -> "calC"
                   [] account = "u3" -> "calD"
                   [] account = "u4" -> "calF"
                   [] account = "u5" -> "calH"
                   [] account = "u6" -> "calI"
                   [] OTHER          -> "calE"
        ids   == {calendarList[account][k].id : k \in 1..Len(calendarList[account])}
    IN  IF first \in ids THEN "calG" ELSE first

\* calendarList().list().execute(): the first page of the account's list.
\* The code asks for no further page.
ListCalendars(account) == FirstN(calendarList[account], CalendarPageSize)

\* the listed entries whose summary is the calendar name
FoundCalendars(account) ==
    SelectSeq(ListCalendars(account), LAMBDA c : c.summary = CalendarName)

\* create_calendar: the id of the first listed calendar of that name; when
\* none is listed, the id of the calendar that calendars().insert creates
create_calendar(account) ==
    IF FoundCalendars(account) # <<>> THEN FoundCalendars(account)[1].id
    ELSE NewCalendarId(account)

\* the account's calendar list after create_calendar
CalendarListAfterCreate(account) ==
    IF FoundCalendars(account) # <<>> THEN calendarList[account]
    ELSE Append(calendarList[account], Entry(NewCalendarId(account), CalendarName))

\* handle_calendar_callback up to its call of sync_games_to_calendar.
\* code_ok: handle_oauth_callback returns credentials; cal_ok: the provider
\* calls of create_calendar succeed
CallbackBegin(p, state, code_ok, cal_ok) ==
    LET user_id     == state.user_id
        credentials == "valid"
        calendar_id == create_calendar(user_id)
        user_teams  == get_user_teams(user_id)
        games       == find_games_by_team_id(user_teams)
        exchanged   == <<"handle_oauth_callback">>
        created     == exchanged \o <<"create_calendar">>
        stored      == created \o <<"update_calendar_status">>
    IN
    /\ FreeSlot(p)
    /\ IF StateRejected(state)
       THEN /\ CallbackAnswer(p, state, "setup=failed", <<>>)
            /\ UNCHANGED <<run, users, calendarList>>
       ELSE IF ~code_ok
       THEN /\ CallbackAnswer(p, state, "setup=failed", exchanged)
            /\ UNCHANGED <<run, users, calendarList>>
       ELSE IF ~cal_ok
       THEN /\ CallbackAnswer(p, state, "setup=failed", created)
            /\ UNCHANGED <<run, users, calendarList>>
       ELSE /\ \/ FoundCalendars(user_id) # <<>>
               \/ Len(calendarList[user_id]) < MaxCalendarEntries
            /\ calendarList' = [calendarList EXCEPT ![user_id] =
                                    CalendarListAfterCreate(user_id)]
            /\ IF user_id \notin DOMAIN users
               THEN \* update_calendar_status matched no document
                    /\ CallbackAnswer(p, state, "setup=failed", stored)
                    /\ UNCHANGED <<run, users>>
               ELSE /\ IF user_teams = {}
                       THEN /\ CallbackAnswer(p, state, "setup=success", stored)
                            /\ UNCHANGED run
                       ELSE /\ RunsStarted < MaxRuns
                            /\ run' = [run EXCEPT ![p] =
                                         EnterRun(credentials, calendar_id, games)]
                            /\ CallbackAnswer(p, state, "pending",
                                              stored \o <<"sync_games_to_calendar">>)
                    /\ users' = [users EXCEPT ![user_id] =
                                   update_calendar_status(@, calendar_id, credentials)]
    /\ UNCHANGED <<now, events, nextId, history, tag, game_store>>

\* PersistsAfter without regard to how the call ended
MutPersistsAlways(route, pc) == route \in {"sync_calendar", "callback"}

\* whether the caller persists last_sync after the reconciler call
PersistsAfter(route, pc) == route \in {"sync_calendar", "callback"} /\ pc = "returned"

\* the count the caller hands to update_last_sync
PersistedCount(r) == r.synced_count

\* the caller's code after its await of sync_games_to_calendar: the count
\* is persisted and reported, or the exception is turned into a response
Complete(p) ==
    LET route == req[p].route
        u     == req[p].user
        r     == run[p]
    IN
    /\ req[p].response = "pending"
    /\ r.pc \in {"returned", "raised"}
    /\ IF PersistsAfter(route, r.pc)
       THEN users' = [users EXCEPT ![u] = update_last_sync(@, PersistedCount(r))]
       ELSE UNCHANGED users
    /\ req' = [req EXCEPT ![p].response =
                 CASE route = "direct" /\ r.pc = "returned"        -> "returned"
                   [] route = "direct" /\ r.pc = "raised"          -> "raised"
                   [] route = "sync_calendar" /\ r.pc = "returned" -> "200 synced"
                   [] route = "sync_calendar" /\ r.pc = "raised"   -> "500"
                   [] route = "callback" /\ r.pc = "returned"      -> "setup=success"
                   [] OTHER                                        -> "setup=failed",
               ![p].count = IF r.pc = "returned" THEN r.synced_count ELSE 0]
    /\ UNCHANGED <<now, events, nextId, calendarList, run, history, tag, game_store>>

\* NFLDatabase.store_game(game_data), called by the data sync
StoreGame(p, game_data) ==
    /\ FreeSlot(p)
    /\ IF StoreRaises(game_data)
       THEN /\ req' = [req EXCEPT ![p] =
                         [IdleReq EXCEPT !.route = "store_game",
                                         !.response = "raised",
                                         !.arg = game_data]]
            /\ UNCHANGED game_store
       ELSE /\ req' = [req EXCEPT ![p] =
                         [IdleReq EXCEPT !.route = "store_game",
                                         !.response = "stored",
                                         !.arg = game_data]]
            /\ game_store' = Upsert(game_store, Stamped(game_data, now))
    /\ UNCHANGED <<now, events, nextId, calendarList, users, run, history, tag>>

\* the keys of NFLDataSync.TEAM_IDS
TEAM_IDS ==
    {"1", "2", "3", "4", "5", "6", "7", "8", "9", "10", "11", "12", "13", "14",
     "15", "16", "17", "18", "19", "20", "21", "22", "23", "24", "25", "26",
     "27", "28", "29", "30", "31", "32"}

\* the ids of a team_ids list
Ids(team_ids) == {team_ids[i] : i \in 1..Len(team_ids)}

\* InvalidTeams that finds every id valid
MutInvalidTeamsNone(team_ids) == {}

\* invalid_teams: the ids of the list that are no key of TEAM_IDS
InvalidTeams(team_ids) == {tid \in Ids(team_ids) : tid \notin TEAM_IDS}

\* the documents find_one({"email": email}) matches
FindByEmail(email) == {u \in DOMAIN users : users[u].email = email}

\* the _id insert_one gives a new document: one no document has
NewUserId == IF "u7" \notin DOMAIN users THEN "u7" ELSE "u8"

\* users.insert_one(user_doc) of create_user
InsertUser(email) ==
    [u \in DOMAIN users \cup {NewUserId} |->
        IF u \in DOMAIN users THEN users[u] ELSE Registered(email, {})]

\* POST /users/register: create_user returns None for a taken email, and the
\* HTTPException(400) register_user raises on it inside its try block is
\* caught by its own 'except Exception' and answered as a 500
RegisterUser(p, email) ==
    /\ FreeSlot(p)
    /\ IF FindByEmail(email) # {}
       THEN /\ req' = [req EXCEPT ![p] =
                         [IdleReq EXCEPT !.route = "register",
                                         !.response = "500 Failed to register user",
                                         !.arg = email,
                                         !.did = <<"find_one">>]]
            /\ UNCHANGED users
       ELSE /\ req' = [req EXCEPT ![p] =
                         [IdleReq EXCEPT !.route = "register",
                                         !.user = NewUserId,
                                         !.response = "200",
                                         !.arg = email,
                                         !.did = <<"find_one", "insert_one">>]]
            /\ users' = InsertUser(email)
    /\ UNCHANGED <<now, events, nextId, calendarList, run, history, tag, game_store>>

\* PUT /users/me/teams for the user of the token; the stored list is kept
\* as the set of its ids
UpdateUserTeams(p, current_user, team_ids) ==
    /\ FreeSlot(p)
    /\ IF InvalidTeams(team_ids) # {}
       THEN /\ req' = [req EXCEPT ![p] =
                         [IdleReq EXCEPT !.route = "update_teams",
                                         !.user = current_user,
                                         !.response = "400 Invalid team IDs provided",
                                         !.arg = team_ids]]
            /\ UNCHANGED users
       ELSE /\ req' = [req EXCEPT ![p] =
                         [IdleReq EXCEPT !.route = "update_teams",
                                         !.user = current_user,
                                         !.response = "200",
                                         !.arg = team_ids,
                                         !.did = <<"update_favorite_teams">>]]
            /\ users' = [users EXCEPT ![current_user].favorite_teams = Ids(team_ids)]
    /\ UNCHANGED <<now, events, nextId, calendarList, run, history, tag, game_store>>

\* the response is sent and the activation ends
Done(p) ==
    /\ req[p].route # "none"
    /\ req[p].response # "pending"
    /\ req' = [req EXCEPT ![p] = IdleReq]
    /\ run' = [run EXCEPT ![p] = IdleRun]
    /\ UNCHANGED <<now, events, nextId, calendarList, users, history, tag, game_store>>

\* time passes
Tick ==
    /\ now + ClockStep <= MaxNow
    /\ now' = now + ClockStep
    /\ UNCHANGED <<events, nextId, calendarList, users, run, req, history, tag, game_store>>

-----------------------------------------------------------------------------
(* Specifications                                                          *)

\* the tag computation before the transform has produced an event
NoEvent == [summary |-> <<>>, description |-> <<>>]

TagOff ==
    [pc |-> "off", game |-> GameA, event |-> NoEvent, description |-> <<>>,
     parsed |-> <<>>]

Init ==
    /\ now = 0
    /\ events = InitEvents
    /\ nextId = 0
    /\ calendarList = InitCalendarList
    /\ users = InitUsers
    /\ run = [p \in Slots |-> IdleRun]
    /\ req = [p \in Slots |-> IdleReq]
    /\ history = <<>>
    /\ game_store = StoredGames
    /\ tag = TagOff

\* the steps of an activation once it has begun
Step(p) == Build(p) \/ List(p) \/ Item(p) \/ Return(p) \/ Complete(p) \/ Done(p)

\* event = self._create_event_from_game(game), for a game it accepts
TagTransform ==
    /\ tag.pc = "game"
    /\ ~TransformRaises(tag.game)
    /\ tag' = [tag EXCEPT !.pc = "event",
                          !.event = _create_event_from_game(tag.game),
                          !.description = _create_event_from_game(tag.game).description]
    /\ UNCHANGED <<now, events, nextId, calendarList, users, run, req, history,
                   game_store>>

\* the scan of the index-building loop on that description
TagParse ==
    /\ tag.pc = "event"
    /\ tag' = [tag EXCEPT !.pc = "parsed", !.parsed = ParseGameId(tag.description)]
    /\ UNCHANGED <<now, events, nextId, calendarList, users, run, req, history,
                   game_store>>

\* a request arrives at one of the routes
Begin(p) ==
    \/ \E u \in DOMAIN users : SyncCalendarBegin(p, u)
    \/ \E state \in StateParams, code_ok \in BOOLEAN, cal_ok \in BOOLEAN :
          CallbackBegin(p, state, code_ok, cal_ok)

\* sync_games_to_calendar under every argument list, one call after the other
Next ==
    \/ \E p \in Slots : NoneActive /\ DirectCall(p)
    \/ \E p \in Slots : Step(p)
    \/ Tick

Spec == Init /\ [][Next]_vars

\* sync_games_to_calendar on lists with records the transform rejects
NextMalformed ==
    \/ \E p \in Slots : NoneActive /\ DirectCallWith(p, MalformedLists)
    \/ \E p \in Slots : Step(p)
    \/ Tick

SpecMalformed == Init /\ [][NextMalformed]_vars

\* store_game calls of the data sync, one after the other
NextStore ==
    \/ \E p \in Slots, game_data \in StorePool : NoneActive /\ StoreGame(p, game_data)
    \/ \E p \in Slots : Done(p)
    \/ Tick

SpecStore == Init /\ [][NextStore]_vars

\* emails of register requests: one taken at the start, one free
Emails == {"u1@x", "new@x"}

\* team_ids lists of update requests: empty, valid, invalid, mixed
TeamLists == {<<>>, <<"1", "32">>, <<"33">>, <<"1", "33">>}

\* requests at the user routes, one after the other
NextUsers ==
    \/ \E p \in Slots, email \in Emails : NoneActive /\ RegisterUser(p, email)
    \/ \E p \in Slots, u \in DOMAIN users, team_ids \in TeamLists :
          NoneActive /\ UpdateUserTeams(p, u, team_ids)
    \/ \E p \in Slots : Done(p)

SpecUsers == Init /\ [][NextUsers]_vars

\* the routes, one request after the other
NextRoutes ==
    \/ \E p \in Slots : NoneActive /\ Begin(p)
    \/ \E p \in Slots : Step(p)
    \/ Tick

SpecRoutes == Init /\ [][NextRoutes]_vars

\* calls of sync_games_to_calendar that overlap.  The coroutine awaits
\* nothing between its list call and its last insert, so one event loop
\* runs a call to its end; calls overlap when they run in different
\* processes (several server workers, or test_google_cal.main beside the
\* server), and nothing in the code coordinates those.
NextConc ==
    \/ \E p \in Slots : OverlappingCall(p)
    \/ \E p \in Slots : Step(p)
    \/ Tick

SpecConc == Init /\ [][NextConc]_vars

\* the transform followed by the scan, on every game of TagGames
InitTag ==
    /\ now = 0
    /\ events = InitEvents
    /\ nextId = 0
    /\ calendarList = InitCalendarList
    /\ users = InitUsers
    /\ run = [p \in Slots |-> IdleRun]
    /\ req = [p \in Slots |-> IdleReq]
    /\ history = <<>>
    /\ game_store = StoredGames
    /\ tag \in {[TagOff EXCEPT !.pc = "game", !.game = g] : g \in TagGames}

NextTag == TagTransform \/ TagParse

SpecTag == InitTag /\ [][NextTag]_vars

\* the transform on every game of TimeGames
InitTransform ==
    /\ now = 0
    /\ events = InitEvents
    /\ nextId = 0
    /\ calendarList = InitCalendarList
    /\ users = InitUsers
    /\ run = [p \in Slots |-> IdleRun]
    /\ req = [p \in Slots |-> IdleReq]
    /\ history = <<>>
    /\ game_store = StoredGames
    /\ tag \in {[TagOff EXCEPT !.pc = "game", !.game = g] : g \in TimeGames}

SpecTransform == InitTransform /\ [][NextTag]_vars

-----------------------------------------------------------------------------
(* Properties                                                              *)

\* positions of the events of a calendar whose description carries the tag id
Tagged(cal, id) ==
    {k \in 1..Len(events[cal]) : TagOf(events[cal][k]) = <<id>>}

\* the create and update calls of a call log
ItemCalls(calls) == SelectSeq(calls, LAMBDA c : c.op # "list")

FailedCalls(calls) == SelectSeq(calls, LAMBDA c : ~c.ok)

Inserts(calls) == SelectSeq(calls, LAMBDA c : c.op = "insert")

\* the game ids of a list
IdsOf(games) == {games[k].game_id : k \in 1..Len(games)}

\* C1: at any time a calendar holds at most one event per 'Game ID:' tag.
C1_OneEventPerGameId ==
    \A cal \in CalIds : \A k1, k2 \in 1..Len(events[cal]) :
        LET t1 == TagOf(events[cal][k1])
            t2 == TagOf(events[cal][k2])
        IN  (t1 # <<>> /\ t1 = t2) => k1 = k2

\* C2: of two runs in a row with the same game list on the same calendar,
\* none of whose calls failed, the second issues no create call and the
\* calendar ends with no more events than the list has distinct game ids.
C2_SecondRunOnlyUpdates ==
    (/\ Len(history) = 2
     /\ history[1].calendar_id = history[2].calendar_id
     /\ history[1].games = history[2].games
     /\ ~history[1].raised /\ ~history[2].raised
     /\ FailedCalls(history[1].calls) = <<>>
     /\ FailedCalls(history[2].calls) = <<>>)
    => /\ Inserts(history[2].calls) = <<>>
       /\ Len(events[history[2].calendar_id])
             <= Cardinality(IdsOf(history[2].games))

\* C3: a first run given two differing records with one game_id, none of
\* whose calls fails, leaves exactly one event for that game_id, and its
\* content is the transform of the later record.
C3_DuplicateIdCreatesOneEvent ==
    \A p \in Slots :
        LET r == run[p] IN
        (/\ r.pc = "returned"
         /\ Len(history) = 1
         /\ Len(r.games) = 2
         /\ r.games[1].game_id = r.games[2].game_id
         /\ r.games[1] # r.games[2]
         /\ ~TransformRaises(r.games[1]) /\ ~TransformRaises(r.games[2])
         /\ FailedCalls(r.calls) = <<>>)
        => /\ Cardinality(Tagged(r.calendar_id, r.games[2].game_id)) = 1
           /\ \A k \in Tagged(r.calendar_id, r.games[2].game_id) :
                 events[r.calendar_id][k].body = _create_event_from_game(r.games[2])

\* C4: a run whose list call failed issues no create or update call and
\* returns no count.
C4_ListFailureAborts ==
    \A p \in Slots :
        (run[p].calls # <<>> /\ ~run[p].calls[1].ok)
        => /\ ItemCalls(run[p].calls) = <<>>
           /\ run[p].pc # "returned"

\* C5: the scan of the index-building loop reads from a produced
\* description the game_id of the game that produced it.
C5_TagRoundTrip ==
    tag.pc = "parsed" => tag.parsed = <<tag.game.game_id>>

\* C6: a failed create or update call neither aborts the run nor is
\* retried: a run with a failed create or update call does not raise, the
\* calls of a run are for increasing positions of the input, one call for
\* every game reached that the transform accepts, and the run returns after
\* the last game.
C6_FailureContinuesNoRetry ==
    \A p \in Slots :
        LET r     == run[p]
            items == ItemCalls(r.calls)
        IN  /\ FailedCalls(items) # <<>> => r.pc # "raised"
            /\ r.pc \in {"loop", "returned"} =>
                  /\ \A k \in 1..(Len(items) - 1) : items[k].item < items[k + 1].item
                  /\ {items[k].item : k \in 1..Len(items)}
                        = {j \in 1..(r.i - 1) : ~TransformRaises(r.games[j])}
                  /\ r.pc = "returned" => r.i = Len(r.games) + 1

\* a run of two games whose first call failed and whose second succeeded
C6_Witness ==
    \E p \in Slots :
        /\ run[p].pc = "returned"
        /\ Len(run[p].games) = 2
        /\ Len(run[p].calls) = 3
        /\ ~run[p].calls[2].ok /\ run[p].calls[2].item = 1
        /\ run[p].calls[3].ok /\ run[p].calls[3].item = 2

\* C7: the value returned is the number of create or update calls of the
\* run that completed without error, and lies between 0 and the length of
\* the input.
C7_CountIsSuccesses ==
    \A p \in Slots :
        run[p].pc = "returned" =>
            /\ run[p].synced_count
                  = Len(SelectSeq(ItemCalls(run[p].calls), LAMBDA c : c.ok))
            /\ run[p].synced_count >= 0
            /\ run[p].synced_count <= Len(run[p].games)

\* a returned run with one game counted, one call failed or one game the
\* transform rejected
C7_Witness ==
    \E p \in Slots :
        /\ run[p].pc = "returned"
        /\ Len(run[p].games) = 2
        /\ run[p].synced_count = 1
        /\ \/ FailedCalls(ItemCalls(run[p].calls)) # <<>>
           \/ \E j \in 1..2 : TransformRaises(run[p].games[j])

\* C8: two finished runs on one calendar, each given one record of the
\* same game_id, each with an index that lacked that id and with no failed
\* call, leave two events tagged with that game_id.
C8_RaceDuplicates ==
    \A p, q \in Slots :
        LET rp == run[p]
            rq == run[q]
        IN  (/\ p # q
             /\ rp.pc = "returned" /\ rq.pc = "returned"
             /\ rp.calendar_id = rq.calendar_id
             /\ Len(rp.games) = 1 /\ Len(rq.games) = 1
             /\ rp.games[1].game_id = rq.games[1].game_id
             /\ ~TransformRaises(rp.games[1]) /\ ~TransformRaises(rq.games[1])
             /\ rp.games[1].game_id \notin DOMAIN rp.existing_events
             /\ rq.games[1].game_id \notin DOMAIN rq.existing_events
             /\ FailedCalls(rp.calls) = <<>> /\ FailedCalls(rq.calls) = <<>>)
            => Cardinality(Tagged(rp.calendar_id, rp.games[1].game_id)) >= 2

\* both runs listed the empty calendar before either inserted, and the
\* calendar holds two events with the tag
C8_Witness ==
    \E p, q \in Slots :
        /\ p # q
        /\ now = 0
        /\ run[p].pc = "returned" /\ run[q].pc = "returned"
        /\ run[p].calendar_id = "calA" /\ run[q].calendar_id = "calA"
        /\ run[p].games = <<GameA>> /\ run[q].games = <<GameA>>
        /\ FailedCalls(run[p].calls) = <<>> /\ FailedCalls(run[q].calls) = <<>>
        /\ run[p].calls[2].op = "insert" /\ run[q].calls[2].op = "insert"
        /\ Cardinality(Tagged("calA", T_1)) = 2

\* C9: a run given a credential the provider rejects returns no count.
C9_RejectedCredentialRaises ==
    \A p \in Slots :
        run[p].credentials_dict = "expired" => run[p].pc # "returned"

LastSync(us, u) == us[u].calendar_status.last_sync

\* C10: a route persists last_sync exactly when its reconciler call
\* returned a count, and with that count: a step sets last_sync only for
\* the user of a route whose run returned, to the returned count; the step
\* that ends the await of a returned run sets it; the step that ends the
\* await of a run that raised leaves the users collection alone.
C10_Step ==
    /\ \A u \in DOMAIN users :
          (LastSync(users', u) # LastSync(users, u) /\ LastSync(users', u).set)
          => \E p \in Slots :
                /\ req[p].user = u
                /\ req[p].response = "pending"
                /\ run[p].pc = "returned"
                /\ LastSync(users', u).games_synced = run[p].synced_count
    /\ \A p \in Slots :
          (/\ req[p].route \in {"sync_calendar", "callback"}
           /\ req[p].response = "pending"
           /\ req'[p].response # "pending")
          => IF run[p].pc = "returned"
             THEN LastSync(users', req[p].user) =
                     [set |-> TRUE, timestamp |-> now,
                      games_synced |-> run[p].synced_count]
             ELSE users' = users

C10_PersistIffCount == [][C10_Step]_vars

\* the initial sync of a callback returned a count lowered by a failed
\* call, and last_sync holds that count
C10_Witness ==
    \E p \in Slots :
        /\ req[p].route = "callback"
        /\ req[p].response = "setup=success"
        /\ run[p].pc = "returned"
        /\ FailedCalls(ItemCalls(run[p].calls)) # <<>>
        /\ run[p].synced_count < Len(run[p].games)
        /\ LastSync(users, req[p].user).set
        /\ LastSync(users, req[p].user).games_synced = run[p].synced_count

\* the event of calendar cal that has the id
EventById(cal, id) ==
    CHOOSE e \in {events[cal][k] : k \in 1..Len(events[cal])} : e.id = id

\* C11: no event that started before the time of a run is in the index of
\* that run, whatever its tag: when the list call of a run has returned,
\* every event the index points to starts at or after the time of the call.
C11_StartedEventNotIndexed ==
    \A p \in Slots :
        LET r == run[p] IN
        (/\ r.pc = "loop" /\ r.i = 1
         /\ r.calls[1].ok
         /\ \A q \in Slots : q # p => run[q].pc = "idle")
        => \A g \in DOMAIN r.existing_events :
              AbsHours(EventById(r.calendar_id, r.existing_events[g]).body.start)
                 >= r.listed_at

\* C12: a call with an empty game list makes no provider call, does not
\* raise, and returns 0.
C12_EmptyListNoProviderCall ==
    \A p \in Slots :
        (run[p].pc # "idle" /\ run[p].games = <<>>)
        => /\ run[p].calls = <<>>
           /\ run[p].pc # "raised"
           /\ run[p].pc = "returned" => run[p].synced_count = 0

\* the events of a calendar that carry a tag and start at or after time t
UpcomingTagged(cal, t) ==
    {e \in {events[cal][k] : k \in 1..Len(events[cal])} :
        TagOf(e) # <<>> /\ AbsHours(e.body.start) >= t}

\* C13: when a run none of whose provider calls failed has returned, the
\* game ids tagged on the upcoming events of its calendar are the game ids
\* of its input, and each of those events is the transform of an input game
\* with its id.
C13_CalendarMatchesInput ==
    \A p \in Slots :
        LET r   == run[p]
            upc == UpcomingTagged(r.calendar_id, r.listed_at)
        IN  (/\ r.pc = "returned"
             /\ FailedCalls(r.calls) = <<>>
             /\ \A q \in Slots : q # p => run[q].pc = "idle")
            => /\ {TagOf(e)[1] : e \in upc} = IdsOf(r.games)
               /\ \A e \in upc :
                     \E j \in 1..Len(r.games) :
                        /\ r.games[j].game_id = TagOf(e)[1]
                        /\ ~TransformRaises(r.games[j])
                        /\ e.body = _create_event_from_game(r.games[j])

\* the bodies of the events of a sequence, in order
Bodies(evs) == [k \in 1..Len(evs) |-> evs[k].body]

\* the create and update calls of a call log that returned
OkItemCalls(calls) == SelectSeq(calls, LAMBDA c : c.op # "list" /\ c.ok)

\* what a run whose calendar nobody else wrote leaves on it when it starts
\* from the initial calendar, whose index holds no game id: the initial
\* events followed by one event per call that returned, in input order
AloneBodies(r) ==
    Bodies(InitEvents[r.calendar_id])
    \o [k \in 1..Len(OkItemCalls(r.calls)) |->
           _create_event_from_game(r.games[OkItemCalls(r.calls)[k].item])]

C14_Step ==
    \A c \in CalIds :
        events'[c] # events[c]
        => \E p \in Slots :
              /\ run[p].calendar_id = c
              /\ run[p].pc = "loop"
              /\ run'[p].i = run[p].i + 1

C14_AloneOutcome ==
    \A p, q \in Slots :
        (/\ p # q
         /\ run[p].pc = "returned" /\ run[q].pc = "returned"
         /\ run[p].calendar_id # run[q].calendar_id
         /\ Len(history) = 2)
        => /\ Bodies(events[run[p].calendar_id]) = AloneBodies(run[p])
           /\ run[p].synced_count = Len(OkItemCalls(run[p].calls))

\* C14: runs on different calendars that overlap do not interfere: a step
\* changes a calendar only as an iteration of a run that was called with
\* that calendar, and when two runs on different calendars have returned,
\* each calendar holds what its run leaves when it runs alone and each
\* count is the number of that run's calls that returned.
C14_NoSharedState == [][C14_Step]_vars /\ []C14_AloneOutcome

\* the later call, on calB, returned before the earlier one, on calA; each
\* inserted its game
C14_Witness ==
    /\ run[1].pc = "returned" /\ run[2].pc = "returned"
    /\ run[1].calendar_id = "calA" /\ run[2].calendar_id = "calB"
    /\ Len(history) = 2
    /\ history[1].calendar_id = "calB"
    /\ run[1].synced_count = 1 /\ run[2].synced_count = 1
    /\ Len(events["calB"]) = Len(InitEvents["calB"]) + 1

\* the calls a run made for the game at position j of its input
CallsFor(r, j) == SelectSeq(r.calls, LAMBDA c : c.op # "list" /\ c.item = j)

\* C15: for every game a run has processed (the transform accepted it and
\* the iteration is over) the run made exactly one call: an update naming
\* the event id the index holds for the game_id when the index has that
\* key, an insert otherwise.
C15_UpdateIffIndexed ==
    \A p \in Slots :
        LET r == run[p] IN
        r.pc \in {"loop", "returned"} =>
            \A j \in 1..(r.i - 1) :
                ~TransformRaises(r.games[j]) =>
                    /\ Len(CallsFor(r, j)) = 1
                    /\ IF r.games[j].game_id \in DOMAIN r.existing_events
                       THEN /\ CallsFor(r, j)[1].op = "update"
                            /\ CallsFor(r, j)[1].id
                                  = r.existing_events[r.games[j].game_id]
                       ELSE CallsFor(r, j)[1].op = "insert"

\* a returned run that updated the event of one game and inserted another
C15_Witness ==
    \E p \in Slots :
        /\ run[p].pc = "returned"
        /\ Len(run[p].games) = 2
        /\ Len(run[p].calls) = 3
        /\ run[p].calls[2].op = "update" /\ run[p].calls[2].ok
        /\ run[p].calls[2].id = run[p].existing_events[run[p].games[1].game_id]
        /\ run[p].calls[3].op = "insert" /\ run[p].calls[3].ok
        /\ run[p].games[2].game_id \notin DOMAIN run[p].existing_events

\* C16: when the list call of a run has returned, every game id tagged on
\* an event of the calendar that starts at or after the time of the call is
\* a key of the index, and the index maps it to an event with that tag.
C16_IndexComplete ==
    \A p \in Slots :
        LET r == run[p] IN
        (/\ r.pc = "loop" /\ r.i = 1
         /\ r.calls[1].ok
         /\ \A q \in Slots : q # p => run[q].pc = "idle")
        => \A e \in UpcomingTagged(r.calendar_id, r.listed_at) :
              /\ TagOf(e)[1] \in DOMAIN r.existing_events
              /\ TagOf(EventById(r.calendar_id, r.existing_events[TagOf(e)[1]]))
                    = TagOf(e)

ListCalls(calls) == SelectSeq(calls, LAMBDA c : c.op = "list")

\* a run past its listing has made one list call, the first of its calls
C17_OneListFirst ==
    \A p \in Slots :
        /\ Len(ListCalls(run[p].calls)) <= 1
        /\ run[p].pc \in {"loop", "returned"} =>
              /\ Len(ListCalls(run[p].calls)) = 1
              /\ run[p].calls[1].op = "list"

\* the index of a run in its loop stays what the listing made it
C17_IndexFrozen ==
    \A p \in Slots :
        (run[p].pc = "loop" /\ run'[p].pc \in {"loop", "returned"})
        => run'[p].existing_events = run[p].existing_events

\* C17: a run that reaches its loop has issued exactly one list call, which
\* is the first call of the run and so precedes every create and update
\* call, and the index does not change from then on until the run returns.
C17_SingleListing == []C17_OneListFirst /\ [][C17_IndexFrozen]_vars

\* a returned run inserted a game whose id its index still lacks, after a
\* listing that found another game's event
C17_Witness ==
    \E p \in Slots :
        LET r == run[p] IN
        /\ r.pc = "returned"
        /\ Len(r.games) = 2
        /\ r.existing_events # EmptyDict
        /\ \E k \in 2..Len(r.calls) :
              /\ r.calls[k].op = "insert" /\ r.calls[k].ok
              /\ r.games[r.calls[k].item].game_id \notin DOMAIN r.existing_events
              /\ Tagged(r.calendar_id, r.games[r.calls[k].item].game_id) # {}

\* a record whose date or time is not in the expected format or that lacks
\* the team names or a required key
Rejected(game) ==
    \/ \E k \in {"game_date", "game_time", "teams", "week", "season", "game_id"} :
          k \notin DOMAIN game
    \/ ~game.game_date.parses
    \/ ~game.game_time.parses
    \/ ~game.teams.present

\* C18: a rejected record aborts its own iteration only: the run makes no
\* call for it, does not count it (the count is the number of accepted
\* games whose call returned), makes one call for every accepted game it
\* has passed, does not raise in the loop, and returns after the last game.
C18_RejectedItemOnly ==
    \A p \in Slots :
        LET r == run[p] IN
        /\ r.pc = "raised" => r.i = 0
        /\ r.pc \in {"loop", "returned"} =>
              /\ \A j \in 1..(r.i - 1) :
                    IF Rejected(r.games[j])
                    THEN CallsFor(r, j) = <<>>
                    ELSE Len(CallsFor(r, j)) = 1
              /\ r.synced_count =
                    Cardinality({j \in 1..(r.i - 1) :
                                    /\ ~Rejected(r.games[j])
                                    /\ CallsFor(r, j) # <<>>
                                    /\ CallsFor(r, j)[1].ok})
              /\ r.pc = "returned" => r.i = Len(r.games) + 1

\* a returned run whose first record lacked the team names and whose second
\* game was inserted and counted
C18_Witness ==
    \E p \in Slots :
        /\ run[p].pc = "returned"
        /\ run[p].games = <<GameNoTeams, GameB>>
        /\ Len(run[p].calls) = 2
        /\ run[p].calls[2].op = "insert" /\ run[p].calls[2].ok
        /\ run[p].calls[2].item = 2
        /\ run[p].synced_count = 1

\* the ids of the events of a calendar from whose description the scan
\* reads no game id
UntaggedIds(cal) ==
    {events[cal][k].id : k \in {n \in 1..Len(events[cal]) : TagOf(events[cal][n]) = <<>>}}

\* no index points to an event without a tag
C19_UntaggedNotIndexed ==
    \A p \in Slots :
        \A g \in DOMAIN run[p].existing_events :
            run[p].existing_events[g] \notin UntaggedIds(run[p].calendar_id)

\* a step leaves every event without a tag where and as it is
C19_UntaggedUnchanged ==
    \A c \in CalIds :
        events'[c] # events[c] =>
            \A k \in 1..Len(events[c]) :
                TagOf(events[c][k]) = <<>>
                => /\ k <= Len(events'[c])
                   /\ events'[c][k] = events[c][k]

\* C19: an event that has no description, or whose description has no line
\* starting with 'Game ID:', is never in the index of a run and is never
\* changed by a step of a run.
C19_UntaggedUntouched == []C19_UntaggedNotIndexed /\ [][C19_UntaggedUnchanged]_vars

\* a run on the calendar with the two hand-made events listed them beside a
\* game's event, updated that event, and the hand-made events are as before
C19_Witness ==
    \E p \in Slots :
        /\ run[p].pc = "returned"
        /\ run[p].calendar_id = "calB"
        /\ run[p].calls[1].ok
        /\ DOMAIN run[p].existing_events # {}
        /\ \E k \in 2..Len(run[p].calls) :
              run[p].calls[k].op = "update" /\ run[p].calls[k].ok
        /\ SubSeq(events["calB"], 1, 2) = <<ManualNoDescription, ManualUntagged>>

\* an iteration over an accepted game whose start is before the present
\* makes the call the index decides, and a call that returns writes the
\* transform of the game to the calendar and is counted
C20_Step ==
    \A p \in Slots :
        LET r    == run[p]
            game == r.games[r.i]
        IN  (/\ r.pc = "loop" /\ r.i <= Len(r.games)
             /\ run'[p].pc = "loop" /\ run'[p].i = r.i + 1
             /\ ~Rejected(game)
             /\ AbsHours(CombineStart(game)) < now)
            => /\ Len(run'[p].calls) = Len(r.calls) + 1
               /\ LET c == run'[p].calls[Len(run'[p].calls)] IN
                  /\ c.item = r.i
                  /\ c.op = IF game.game_id \in DOMAIN r.existing_events
                            THEN "update" ELSE "insert"
                  /\ c.ok => /\ run'[p].synced_count = r.synced_count + 1
                             /\ \E k \in 1..Len(events'[r.calendar_id]) :
                                   /\ events'[r.calendar_id][k].id = c.id
                                   /\ events'[r.calendar_id][k].body
                                         = _create_event_from_game(game)

\* C20: the loop does not look at the clock: a well-formed game that starts
\* before the time of the run gets its create or update call, chosen by the
\* index alone, and on success is written and counted.
C20_PastGameWritten == [][C20_Step]_vars

\* a run that listed at hour 24 has inserted a game that started at hour 13
\* and updated the event of a game that started at hour 22
C20_Witness ==
    \E p \in Slots :
        LET r == run[p] IN
        /\ r.pc = "returned"
        /\ r.calls[1].ok /\ r.listed_at = 24
        /\ \E k1, k2 \in 2..Len(r.calls) :
              /\ r.calls[k1].op = "insert" /\ r.calls[k1].ok
              /\ AbsHours(CombineStart(r.games[r.calls[k1].item])) < r.listed_at
              /\ r.calls[k2].op = "update" /\ r.calls[k2].ok
              /\ AbsHours(CombineStart(r.games[r.calls[k2].item])) < r.listed_at

\* C21: the event of a well-formed game starts at game_date combined with
\* game_time and ends exactly 3 hours later, at an hour of the day, on the
\* next day exactly when the game starts at 21:00 or later, and start and
\* end carry the same timezone.
C21_EndIsStartPlusThree ==
    tag.pc \in {"event", "parsed"} =>
        LET e == tag.event
            g == tag.game
        IN  /\ e.start.day = g.game_date.day
            /\ e.start.hour = g.game_time.hour
            /\ AbsHours(e.end) = AbsHours(e.start) + 3
            /\ e.end.hour \in 0..23
            /\ e.end.day = IF g.game_time.hour >= 21 THEN e.start.day + 1
                           ELSE e.start.day
            /\ e.start.timeZone = e.end.timeZone

\* the event of a game that starts at 22:00 ends at 01:00 of the next day
C21_Witness ==
    /\ tag.pc = "event"
    /\ tag.game.game_time.hour = 22
    /\ tag.event.end.day = tag.game.game_date.day + 1
    /\ tag.event.end.hour = 1

\* a step of a run leaves the run's game list and the games collection as
\* they are
C22_InputsKept ==
    /\ game_store' = game_store
    /\ \A p \in Slots :
          (run[p].pc \in {"build", "list", "loop"} /\ run'[p].pc # "idle")
          => run'[p].games = run[p].games

\* the event a call of a run wrote, when no later call of the run wrote it
\* again, is the transform of the call's game as computed now
C22_SameEvent ==
    \A p \in Slots :
        LET r == run[p] IN
        (/\ r.pc \in {"loop", "returned"}
         /\ \A q \in Slots : q # p => run[q].pc = "idle")
        => \A k \in 1..Len(r.calls) :
              (/\ r.calls[k].op # "list" /\ r.calls[k].ok
               /\ \A m \in (k + 1)..Len(r.calls) :
                     ~(r.calls[m].ok /\ r.calls[m].id = r.calls[k].id))
              => EventById(r.calendar_id, r.calls[k].id).body
                    = _create_event_from_game(r.games[r.calls[k].item])

\* C22: the reconciler only reads its games: no step of a run changes the
\* run's game list or the games collection, and the transform gives the
\* same event for the same game whenever it is called.
C22_GamesReadOnly == [][C22_InputsKept]_vars /\ []C22_SameEvent

\* the same list was synced at hour 0 and again at hour 24; the second run
\* updated the event the first had inserted
C22_Witness ==
    \E p \in Slots :
        /\ Len(history) = 2
        /\ now = 24
        /\ run[p].pc = "returned"
        /\ history[1].games = <<GameA>> /\ history[2].games = <<GameA>>
        /\ history[1].calendar_id = history[2].calendar_id
        /\ Len(history[1].calls) = 2
        /\ history[1].calls[2].op = "insert" /\ history[1].calls[2].ok
        /\ Len(run[p].calls) = 2
        /\ run[p].calls[2].op = "update" /\ run[p].calls[2].ok
        /\ run[p].listed_at = 24

\* no two documents of the games collection have one game_id
C23_OnePerGameId ==
    \A i, j \in 1..Len(game_store) :
        game_store[i].game_id = game_store[j].game_id => i = j

\* a store_game call raises exactly when a required field is absent, and
\* then leaves the collection as it is; otherwise a document with the
\* game_id carries every field of the call
C23_StoreStep ==
    \A p \in Slots :
        (req[p].route = "none" /\ req'[p].route = "store_game") =>
            LET g == req'[p].arg IN
            IF \E f \in {"game_id", "season", "participating_teams", "game_date"} :
                  f \notin DOMAIN g
            THEN /\ req'[p].response = "raised"
                 /\ game_store' = game_store
            ELSE /\ req'[p].response = "stored"
                 /\ \E k \in 1..Len(game_store') :
                       /\ game_store'[k].game_id = g.game_id
                       /\ \A f \in DOMAIN g : game_store'[k][f] = g[f]

\* C23: after any sequence of store_game calls the games collection holds
\* at most one document per game_id, a call that stores leaves a document
\* with that game_id carrying the fields of the call, and a call lacking a
\* required field raises and leaves the collection unchanged.
C23_LastWriteWins == []C23_OnePerGameId /\ [][C23_StoreStep]_vars

\* the stored game was stored again with another kick-off at hour 24: the
\* collection still has its two documents and the first carries the new
\* kick-off
C23_Witness ==
    \E p \in Slots :
        /\ req[p].route = "store_game"
        /\ req[p].response = "stored"
        /\ req[p].arg = GameA2
        /\ Len(game_store) = 2
        /\ game_store[1].game_id = GameA.game_id
        /\ game_store[1].game_time = GameA2.game_time
        /\ game_store[1].last_updated = 24

\* C24: a sync_calendar request of a user whom the callback has connected,
\* who has teams selected and games stored for them, is not rejected as not
\* connected and its run is given the calendar id and the credentials that
\* update_calendar_status stored.
C24_SyncUsesStoredLink ==
    \A p \in Slots :
        LET u == req[p].user IN
        (/\ req[p].route = "sync_calendar"
         /\ users[u].calendar_status.is_connected
         /\ get_user_teams(u) # {}
         /\ find_games_by_team_id(get_user_teams(u)) # <<>>)
        => /\ req[p].response \notin {"400 not connected", "500"}
           /\ run[p].pc # "idle" =>
                 /\ run[p].calendar_id = users[u].calendar_status.calendar_id
                 /\ run[p].credentials_dict = users[u].calendar_status.credentials

\* a step removes no event, keeps every event at its place under its id,
\* and changes an event only as a run on that calendar whose input has the
\* game id the event is tagged with
C25_Step ==
    \A c \in CalIds :
        events'[c] # events[c] =>
            /\ Len(events'[c]) >= Len(events[c])
            /\ \A k \in 1..Len(events[c]) :
                  /\ events'[c][k].id = events[c][k].id
                  /\ events'[c][k] # events[c][k] =>
                        \E p \in Slots :
                           /\ run[p].pc = "loop"
                           /\ run[p].calendar_id = c
                           /\ TagOf(events[c][k]) # <<>>
                           /\ TagOf(events[c][k])[1] \in IdsOf(run[p].games)

Named(account) ==
    {k \in 1..Len(calendarList[account]) :
        calendarList[account][k].summary = CalendarName}

\* C26: after any sequence of create_calendar calls, one at a time, an
\* account holds at most one calendar of the name, and the calendar id
\* stored for a connected user is the id of that calendar.
C26_OneCalendarPerAccount ==
    /\ \A a \in Accounts : Cardinality(Named(a)) <= 1
    /\ \A u \in DOMAIN users :
          users[u].calendar_status.is_connected =>
              \A k \in Named(u) :
                  calendarList[u][k].id = users[u].calendar_status.calendar_id

\* the answer of a sync_calendar request that begins in this step
C27_Step ==
    \A p \in Slots :
        (req[p].route = "none" /\ req'[p].route = "sync_calendar") =>
            LET u     == req'[p].user
                teams == users[u].favorite_teams
                found == SelectSeq(game_store,
                                   LAMBDA g : g.participating_teams \cap teams # {})
                quiet == /\ users' = users
                         /\ events' = events
                         /\ calendarList' = calendarList
                         /\ run' = run
                         /\ history' = history
            IN  /\ ~users[u].has_google_credentials =>
                      req'[p].response = "400 not connected" /\ quiet
                /\ (users[u].has_google_credentials /\ teams = {}) =>
                      req'[p].response = "400 no teams" /\ quiet
                /\ (users[u].has_google_credentials /\ teams # {} /\ found = <<>>) =>
                      /\ req'[p].response = "200 no games"
                      /\ req'[p].count = 0
                      /\ quiet

\* an answered request without a run leads to no write of the user record
C27_NoLaterWrite ==
    \A p \in Slots :
        (/\ req[p].route = "sync_calendar"
         /\ req[p].response \in {"400 not connected", "400 no teams", "200 no games"})
        => /\ run[p].pc = "idle"
           /\ users' = users

\* C27: sync_calendar answers 400 to a user without stored google
\* credentials or without selected teams, and answers a count of 0 to a
\* user whose teams have no stored game, each time without a provider call,
\* without a reconciler run and without a write of last_sync.
C27_SyncRejections == [][C27_Step /\ C27_NoLaterWrite]_vars

\* a user with stored credentials whose team has no stored game has been
\* answered a count of 0; no run was started and last_sync is not set
C27_Witness ==
    \E p \in Slots :
        /\ req[p].route = "sync_calendar"
        /\ req[p].user = "u6"
        /\ req[p].response = "200 no games"
        /\ req[p].count = 0
        /\ run[p].pc = "idle"
        /\ history = <<>>
        /\ ~LastSync(users, req[p].user).set

\* a callback that begins in this step with a state that does not decode,
\* lacks a key or is older than 3600 seconds is answered setup=failed
\* after no collaborator call, and nothing else changes
C28_Step ==
    \A p \in Slots :
        (req[p].route = "none" /\ req'[p].route = "callback") =>
            LET st == req'[p].arg IN
            (~st.decodes \/ ~st.complete \/ st.age > 3600) =>
                /\ req'[p].response = "setup=failed"
                /\ req'[p].did = <<>>
                /\ users' = users
                /\ calendarList' = calendarList
                /\ events' = events
                /\ run' = run
                /\ history' = history

\* no step follows the answer but the end of the request
C28_NoLaterStep ==
    \A p \in Slots :
        (req[p].route = "callback" /\ req[p].did = <<>>)
        => /\ run[p].pc = "idle"
           /\ users' = users /\ calendarList' = calendarList /\ events' = events

\* C28: handle_calendar_callback given a state that cannot be decoded,
\* lacks user_id or timestamp, or is more than 3600 seconds old redirects to
\* setup=failed without exchanging the code, creating a calendar, writing
\* the user record or syncing a game.
C28_BadStateRejected == [][C28_Step /\ C28_NoLaterStep]_vars

\* a state for u1 that is 3601 seconds old was answered setup=failed; u1 is
\* not connected and its account has no calendar
C28_Witness ==
    \E p \in Slots :
        /\ req[p].route = "callback"
        /\ req[p].arg.decodes /\ req[p].arg.complete
        /\ req[p].arg.user_id = "u1"
        /\ req[p].arg.age = 3601
        /\ req[p].response = "setup=failed"
        /\ req[p].did = <<>>
        /\ ~users["u1"].calendar_status.is_connected
        /\ calendarList["u1"] = <<>>

\* at most one document of the users collection has a given email
C29_OnePerEmail ==
    \A u, v \in DOMAIN users : users[u].email = users[v].email => u = v

\* a register_user request that begins in this step with an email some
\* document has is answered 400 Email already registered and the users
\* collection is unchanged
C29_Step ==
    \A p \in Slots :
        (req[p].route = "none" /\ req'[p].route = "register"
         /\ \E u \in DOMAIN users : users[u].email = req'[p].arg)
        => /\ req'[p].response = "400 Email already registered"
           /\ users' = users

\* C29: registering with an email that is already registered is answered
\* with the 400 'Email already registered' error and leaves the user store
\* unchanged; after any sequence of non-overlapping register_user calls at
\* most one user record exists per email.
C29_DuplicateEmailRejected == []C29_OnePerEmail /\ [][C29_Step]_vars

\* an update_user_teams request that begins in this step with a list holding
\* an id outside TEAM_IDS is answered 400 and the users collection is
\* unchanged
C30_Step ==
    \A p \in Slots :
        (req[p].route = "none" /\ req'[p].route = "update_teams"
         /\ \E i \in 1..Len(req'[p].arg) : req'[p].arg[i] \notin TEAM_IDS)
        => /\ req'[p].response = "400 Invalid team IDs provided"
           /\ users' = users

\* every stored favorite team id is a key of TEAM_IDS
C30_StoredTeamsValid ==
    \A u \in DOMAIN users : users[u].favorite_teams \subseteq TEAM_IDS

\* C30: update_user_teams given a list containing any team id outside
\* NFLDataSync.TEAM_IDS is rejected with a 400 error and the user's stored
\* favorite_teams is unchanged; after any sequence of update_user_teams
\* requests every stored favorite team id is a key of TEAM_IDS.
C30_InvalidTeamsRejected == []C30_StoredTeamsValid /\ [][C30_Step]_vars

\* u1, whose teams were updated to 1 and 32 before, asked for the list
\* <<"1", "33">> and was answered 400; its stored teams are still 1 and 32
C30_Witness ==
    \E p \in Slots :
        /\ req[p].route = "update_teams"
        /\ req[p].user = "u1"
        /\ req[p].arg = <<"1", "33">>
        /\ req[p].response = "400 Invalid team IDs provided"
        /\ req[p].did = <<>>
        /\ users["u1"].favorite_teams = {"1", "32"}

=============================================================================
